---- MODULE Spec2Model ----
(***************************************************************************)
(* The EncryptedVideoConference contract (src/unnamed/part_000) as a state *)
(* machine: the conferences mapping, the conferenceIds list, the event     *)
(* log, the block timestamp and the result of the most recent call.        *)
(* Every external function is a pure "Call" operator that walks the        *)
(* function's statements in order and yields the revert reason or the      *)
(* storage it leaves, and an action that applies it (Spec).                *)
(*                                                                         *)
(* The client App (src/frontend/web/src/App.tsx) is a second state machine *)
(* (AppSpec): its async handlers, one action per await, the toast they set *)
(* and the hide timers they start.                                         *)
(***************************************************************************)
EXTENDS Integers, Sequences, FiniteSets, TLC

\* ------------------------------------------------------------------ bounds

\* block.timestamp ranges over 0..MaxTime.
MaxTime == 2

\* createConference is called only while conferenceIds is shorter than this.
MaxIds == 2

\* The client App shows at most this many toasts.
MaxToasts == 4

\* ------------------------------------------------------------- input sets

\* Conference ids callers pass; the empty string is a legal calldata string.
Ids == {"", "a"}

\* msg.sender of a call.
Addresses == {"alice", "bob"}

\* address(0), the creator of a mapping slot that was never written.
ZeroAddress == "0x0"

\* The (startTime, endTime) pairs callers pass: the three proper windows
\* within 0..2, an empty window and a reversed one.
Windows == {<<0, 1>>, <<0, 2>>, <<1, 2>>, <<1, 1>>, <<2, 1>>}

\* euint32 handles: 0 is the uninitialized handle, 1 and 2 are ciphertexts.
Handles == {1, 2}
NoHandle == 0

\* inputProof: a number h is the proof that attests the external handle h,
\* EmptyProof is the empty byte string.
EmptyProof == 3

\* A decryptionProof that carries no KMS signature.
NoProof == 0

\* The (externalEuint32, inputProof) pairs callers pass: two attested
\* ciphertexts, a proof for another handle, the zero handle without a proof.
EncryptedInputs ==
  {<<1, 1>>, <<2, 2>>, <<1, 2>>, <<NoHandle, EmptyProof>>}

\* The cleartext the ciphertext behind a handle decrypts to.
PlainOf(h) == IF h = 1 THEN 7 ELSE 0

\* A 32-byte ABI word: lo is its low 32 bits, hi the 224 bits above them.
\* abi.encode(uint32) leaves hi zero.
AbiEncodeUint32(v) == [hi |-> 0, lo |-> v]

\* decryptionProof: NoProof is rejected; a number h is the KMS signature over
\* the handle list <<h>> and the encoding of the cleartext of h.
\* The (abiEncodedClearKey, decryptionProof) pairs callers pass: the two true
\* claims, a cleartext with the signature of another one, a word that is no
\* uint32, and a claim without a signature.
DecryptionClaims ==
  {<<[hi |-> 0, lo |-> 7], 1>>, <<[hi |-> 0, lo |-> 0], 2>>,
   <<[hi |-> 0, lo |-> 7], 2>>, <<[hi |-> 1, lo |-> 7], 1>>,
   <<[hi |-> 0, lo |-> 7], NoProof>>}

VARIABLES conferences, conferenceIds, events, acl, now, last

\* The client App: the toast it renders, the number of toasts shown so far
\* (the visible toast is the toastSeq-th), the pending hide timers with the
\* toast each was started for, and where each async handler is suspended.
VARIABLES transactionStatus, toastSeq, timers, pc

contractVars == <<conferences, conferenceIds, events, acl, now, last>>

appVars == <<transactionStatus, toastSeq, timers, pc>>

vars == <<conferences, conferenceIds, events, acl, now, last,
          transactionStatus, toastSeq, timers, pc>>

\* ------------------------------------------------------------ the storage

\* The value of a mapping slot that was never written.
DefaultConference ==
  [conferenceId |-> "", encryptedStreamKey |-> NoHandle, creator |-> ZeroAddress,
   startTime |-> 0, endTime |-> 0, isActive |-> FALSE,
   decryptedStreamKey |-> 0, isDecrypted |-> FALSE]

\* bytes(s).length of an id.
BytesLength(s) == Len(s)

\* bytes(conferences[conferenceId].conferenceId).length > 0
Exists(conferenceId) == BytesLength(conferences[conferenceId].conferenceId) > 0

\* ------------------------------------------------- the FHE collaborator

\* FHE.fromExternal: the internal handle, or a revert of the input verifier.
\* A proof is accepted for the handle it attests; the zero handle with an
\* empty proof passes through as the zero handle.
fromExternal(encryptedStreamKey, inputProof) ==
  IF inputProof = EmptyProof
  THEN [ok |-> encryptedStreamKey = NoHandle, handle |-> NoHandle]
  ELSE IF encryptedStreamKey \in Handles /\ inputProof = encryptedStreamKey
       THEN [ok |-> TRUE, handle |-> encryptedStreamKey]
       ELSE [ok |-> FALSE, handle |-> NoHandle]

\* FHE.isInitialized
isInitialized(handle) == handle # NoHandle

\* FHE.checkSignatures: passes when the KMS signed exactly (cts, cleartexts),
\* and the KMS signs a handle only with the encoding of its cleartext.
checkSignatures(cts, abiEncodedClearKey, decryptionProof) ==
  /\ decryptionProof # NoProof
  /\ cts = <<decryptionProof>>
  /\ abiEncodedClearKey = AbiEncodeUint32(PlainOf(decryptionProof))

\* abi.decode(bytes, (uint32)): reverts on a word that is no uint32.
AbiDecodeUint32(word) ==
  IF word.hi = 0 THEN [ok |-> TRUE, value |-> word.lo]
                 ELSE [ok |-> FALSE, value |-> 0]

\* ------------------------------------------------------------- the calls

\* A failed require: the transaction reverts, storage and log are restored.
Revert(reason) ==
  [status |-> reason, conferences |-> conferences,
   conferenceIds |-> conferenceIds, events |-> events, acl |-> acl]

OK == "ok"

\* createConference past its requires: the record is written, the handle is
\* allowed and made publicly decryptable, the id is pushed, the event emitted.
\* createConference's writes with the id put at the head of conferenceIds
\* instead of pushed at its end.
createConferenceWrites_PushesAtHead(conferenceId, sender, handle, startTime, endTime) ==
  [status |-> OK,
   conferences |->
     [conferences EXCEPT ![conferenceId] =
        [conferenceId |-> conferenceId, encryptedStreamKey |-> handle,
         creator |-> sender, startTime |-> startTime, endTime |-> endTime,
         isActive |-> TRUE, decryptedStreamKey |-> 0, isDecrypted |-> FALSE]],
   conferenceIds |-> <<conferenceId>> \o conferenceIds,
   events |-> Append(events, [name |-> "ConferenceCreated",
                              conferenceId |-> conferenceId,
                              creator |-> sender]),
   acl |-> [allowedThis |-> acl.allowedThis \cup {handle},
            publiclyDecryptable |-> acl.publiclyDecryptable \cup {handle}]]

createConferenceWrites(conferenceId, sender, handle, startTime, endTime) ==
  [status |-> OK,
   conferences |->
     [conferences EXCEPT ![conferenceId] =
        [conferenceId |-> conferenceId, encryptedStreamKey |-> handle,
         creator |-> sender, startTime |-> startTime, endTime |-> endTime,
         isActive |-> TRUE, decryptedStreamKey |-> 0, isDecrypted |-> FALSE]],
   conferenceIds |-> Append(conferenceIds, conferenceId),
   events |-> Append(events, [name |-> "ConferenceCreated",
                              conferenceId |-> conferenceId,
                              creator |-> sender]),
   acl |-> [allowedThis |-> acl.allowedThis \cup {handle},
            publiclyDecryptable |-> acl.publiclyDecryptable \cup {handle}]]

\* createConference with the window checked after the writes and reported
\* without a revert: a rejected call leaves its record, id and event behind.
createConferenceCall_WindowCheckedLate(conferenceId, sender, encryptedStreamKey, inputProof, startTime, endTime) ==
  LET ext == fromExternal(encryptedStreamKey, inputProof)
      written == createConferenceWrites(conferenceId, sender, ext.handle,
                                        startTime, endTime)
  IN
  IF BytesLength(conferences[conferenceId].conferenceId) # 0
  THEN Revert("Conference already exists")
  ELSE IF ~ext.ok
  THEN Revert("fromExternal reverted")
  ELSE IF ~isInitialized(ext.handle)
  THEN Revert("Invalid encrypted input")
  ELSE IF ~(startTime < endTime)
  THEN [written EXCEPT !.status = "Invalid time range"]
  ELSE IF ~(now < endTime)
  THEN [written EXCEPT !.status = "Conference has already ended"]
  ELSE written

createConferenceCall(conferenceId, sender, encryptedStreamKey, inputProof, startTime, endTime) ==
  LET ext == fromExternal(encryptedStreamKey, inputProof) IN
  IF BytesLength(conferences[conferenceId].conferenceId) # 0
  THEN Revert("Conference already exists")
  ELSE IF ~ext.ok
  THEN Revert("fromExternal reverted")
  ELSE IF ~isInitialized(ext.handle)
  THEN Revert("Invalid encrypted input")
  ELSE IF ~(startTime < endTime)
  THEN Revert("Invalid time range")
  ELSE IF ~(now < endTime)
  THEN Revert("Conference has already ended")
  ELSE createConferenceWrites(conferenceId, sender, ext.handle,
                              startTime, endTime)

\* decryptStreamKey past its requires and the signature check: the decoded
\* key and the flag are stored, the event emitted.
decryptStreamKeyWrites(conferenceId, decodedKey) ==
  [status |-> OK,
   conferences |->
     [conferences EXCEPT ![conferenceId].decryptedStreamKey = decodedKey,
                         ![conferenceId].isDecrypted = TRUE],
   conferenceIds |-> conferenceIds,
   events |-> Append(events, [name |-> "StreamKeyDecrypted",
                              conferenceId |-> conferenceId,
                              decryptedKey |-> decodedKey]),
   acl |-> acl]

\* decryptStreamKey without its require on isDecrypted.
decryptStreamKeyCall_NoDecryptedCheck(conferenceId, sender, abiEncodedClearKey, decryptionProof) ==
  LET conf == conferences[conferenceId]
      cts == <<conf.encryptedStreamKey>>
      decoded == AbiDecodeUint32(abiEncodedClearKey)
  IN
  IF ~(BytesLength(conf.conferenceId) > 0)
  THEN Revert("Conference does not exist")
  ELSE IF ~(now >= conf.startTime)
  THEN Revert("Conference has not started")
  ELSE IF ~(now <= conf.endTime)
  THEN Revert("Conference has ended")
  ELSE IF ~checkSignatures(cts, abiEncodedClearKey, decryptionProof)
  THEN Revert("checkSignatures reverted")
  ELSE IF ~decoded.ok
  THEN Revert("abi.decode reverted")
  ELSE decryptStreamKeyWrites(conferenceId, decoded.value)

\* decryptStreamKey without its call of FHE.checkSignatures.
decryptStreamKeyCall_NoSignatureCheck(conferenceId, sender, abiEncodedClearKey, decryptionProof) ==
  LET conf == conferences[conferenceId]
      decoded == AbiDecodeUint32(abiEncodedClearKey)
  IN
  IF ~(BytesLength(conf.conferenceId) > 0)
  THEN Revert("Conference does not exist")
  ELSE IF conf.isDecrypted
  THEN Revert("Stream key already decrypted")
  ELSE IF ~(now >= conf.startTime)
  THEN Revert("Conference has not started")
  ELSE IF ~(now <= conf.endTime)
  THEN Revert("Conference has ended")
  ELSE IF ~decoded.ok
  THEN Revert("abi.decode reverted")
  ELSE decryptStreamKeyWrites(conferenceId, decoded.value)

\* decryptStreamKey with a creator-only require added after the existence
\* check.
decryptStreamKeyCall_OnlyCreator(conferenceId, sender, abiEncodedClearKey, decryptionProof) ==
  LET conf == conferences[conferenceId]
      cts == <<conf.encryptedStreamKey>>
      decoded == AbiDecodeUint32(abiEncodedClearKey)
  IN
  IF ~(BytesLength(conf.conferenceId) > 0)
  THEN Revert("Conference does not exist")
  ELSE IF ~(sender = conf.creator)
  THEN Revert("Only creator can decrypt")
  ELSE IF conf.isDecrypted
  THEN Revert("Stream key already decrypted")
  ELSE IF ~(now >= conf.startTime)
  THEN Revert("Conference has not started")
  ELSE IF ~(now <= conf.endTime)
  THEN Revert("Conference has ended")
  ELSE IF ~checkSignatures(cts, abiEncodedClearKey, decryptionProof)
  THEN Revert("checkSignatures reverted")
  ELSE IF ~decoded.ok
  THEN Revert("abi.decode reverted")
  ELSE decryptStreamKeyWrites(conferenceId, decoded.value)

\* decryptStreamKey without its require on endTime.
decryptStreamKeyCall_NoEndCheck(conferenceId, sender, abiEncodedClearKey, decryptionProof) ==
  LET conf == conferences[conferenceId]
      cts == <<conf.encryptedStreamKey>>
      decoded == AbiDecodeUint32(abiEncodedClearKey)
  IN
  IF ~(BytesLength(conf.conferenceId) > 0)
  THEN Revert("Conference does not exist")
  ELSE IF conf.isDecrypted
  THEN Revert("Stream key already decrypted")
  ELSE IF ~(now >= conf.startTime)
  THEN Revert("Conference has not started")
  ELSE IF ~checkSignatures(cts, abiEncodedClearKey, decryptionProof)
  THEN Revert("checkSignatures reverted")
  ELSE IF ~decoded.ok
  THEN Revert("abi.decode reverted")
  ELSE decryptStreamKeyWrites(conferenceId, decoded.value)

\* decryptStreamKey with its require on endTime late by one time unit.
decryptStreamKeyCall_LateByOne(conferenceId, sender, abiEncodedClearKey, decryptionProof) ==
  LET conf == conferences[conferenceId]
      cts == <<conf.encryptedStreamKey>>
      decoded == AbiDecodeUint32(abiEncodedClearKey)
  IN
  IF ~(BytesLength(conf.conferenceId) > 0)
  THEN Revert("Conference does not exist")
  ELSE IF conf.isDecrypted
  THEN Revert("Stream key already decrypted")
  ELSE IF ~(now >= conf.startTime)
  THEN Revert("Conference has not started")
  ELSE IF ~(now <= conf.endTime + 1)
  THEN Revert("Conference has ended")
  ELSE IF ~checkSignatures(cts, abiEncodedClearKey, decryptionProof)
  THEN Revert("checkSignatures reverted")
  ELSE IF ~decoded.ok
  THEN Revert("abi.decode reverted")
  ELSE decryptStreamKeyWrites(conferenceId, decoded.value)

decryptStreamKeyCall(conferenceId, sender, abiEncodedClearKey, decryptionProof) ==
  LET conf == conferences[conferenceId]
      cts == <<conf.encryptedStreamKey>>
      decoded == AbiDecodeUint32(abiEncodedClearKey)
  IN
  IF ~(BytesLength(conf.conferenceId) > 0)
  THEN Revert("Conference does not exist")
  ELSE IF conf.isDecrypted
  THEN Revert("Stream key already decrypted")
  ELSE IF ~(now >= conf.startTime)
  THEN Revert("Conference has not started")
  ELSE IF ~(now <= conf.endTime)
  THEN Revert("Conference has ended")
  ELSE IF ~checkSignatures(cts, abiEncodedClearKey, decryptionProof)
  THEN Revert("checkSignatures reverted")
  ELSE IF ~decoded.ok
  THEN Revert("abi.decode reverted")
  ELSE decryptStreamKeyWrites(conferenceId, decoded.value)

\* endConference past its requires: isActive is cleared, nothing is emitted.
endConferenceWrites(conferenceId) ==
  [status |-> OK,
   conferences |-> [conferences EXCEPT ![conferenceId].isActive = FALSE],
   conferenceIds |-> conferenceIds,
   events |-> events,
   acl |-> acl]

\* endConference with >= for > in its time check: it ends at endTime itself.
endConferenceCall_EndsAtEndTime(conferenceId, sender) ==
  LET conf == conferences[conferenceId] IN
  IF ~(BytesLength(conf.conferenceId) > 0)
  THEN Revert("Conference does not exist")
  ELSE IF ~(sender = conf.creator)
  THEN Revert("Only creator can end conference")
  ELSE IF ~(now >= conf.endTime)
  THEN Revert("Conference is still active")
  ELSE endConferenceWrites(conferenceId)

endConferenceCall(conferenceId, sender) ==
  LET conf == conferences[conferenceId] IN
  IF ~(BytesLength(conf.conferenceId) > 0)
  THEN Revert("Conference does not exist")
  ELSE IF ~(sender = conf.creator)
  THEN Revert("Only creator can end conference")
  ELSE IF ~(now > conf.endTime)
  THEN Revert("Conference is still active")
  ELSE endConferenceWrites(conferenceId)

\* ------------------------------------------------------------- the views

NotFound == [status |-> "Conference does not exist"]

getEncryptedStreamKey(conferenceId) ==
  IF ~Exists(conferenceId) THEN NotFound
  ELSE [status |-> OK, value |-> conferences[conferenceId].encryptedStreamKey]

getConferenceDetails(conferenceId) ==
  IF ~Exists(conferenceId) THEN NotFound
  ELSE LET conf == conferences[conferenceId] IN
       [status |-> OK, creator |-> conf.creator, startTime |-> conf.startTime,
        endTime |-> conf.endTime, isActive |-> conf.isActive,
        isDecrypted |-> conf.isDecrypted,
        decryptedStreamKey |-> conf.decryptedStreamKey]

getAllConferenceIds == conferenceIds

\* The getter Solidity generates for the public mapping conferences: it
\* returns the members of whatever the slot holds and has no require.
conferencesGetter(conferenceId) ==
  LET conf == conferences[conferenceId] IN
  [status |-> OK, conferenceId |-> conf.conferenceId,
   encryptedStreamKey |-> conf.encryptedStreamKey, creator |-> conf.creator,
   startTime |-> conf.startTime, endTime |-> conf.endTime,
   isActive |-> conf.isActive, decryptedStreamKey |-> conf.decryptedStreamKey,
   isDecrypted |-> conf.isDecrypted]

isConferenceActive(conferenceId) ==
  IF ~Exists(conferenceId) THEN NotFound
  ELSE [status |-> OK, value |-> conferences[conferenceId].isActive]

\* ----------------------------------------------------------- the actions

\* The transaction's outcome becomes the state; last records what was called.
\* ------------------------------------------------------- the client App

\* The async functions of App that show toasts.
Handlers ==
  {"loadConferences", "createConference", "decryptConferenceKey",
   "checkAvailability"}

\* setTransactionStatus({ visible: false, status: "pending", message: "" })
HiddenStatus == [visible |-> FALSE, status |-> "pending", message |-> ""]

\* The delays of the hide timers, in seconds.
SuccessHideDelay == 2
ErrorHideDelay == 3

\* A toast shown without a setTimeout.
NoTimer == 0

Toast(status, message, delay) ==
  [status |-> status, message |-> message, delay |-> delay]

ErrorToast(message) == Toast("error", message, ErrorHideDelay)

SuccessToast(message) == Toast("success", message, SuccessHideDelay)

PendingToast(message) == Toast("pending", message, NoTimer)

\* setTimeout(() => setTransactionStatus(hidden), delay) for the seq-th toast.
TimerOf(seq, toast) ==
  IF toast.delay = NoTimer THEN {} ELSE {[toast |-> seq, left |-> toast.delay]}

\* The setTransactionStatus and setTimeout calls a handler makes before it
\* next suspends, in order: each toast replaces the one on screen, each timer
\* is added to the pending ones and none is ever cleared.
Show(toasts) ==
  /\ toastSeq + Len(toasts) <= MaxToasts
  /\ transactionStatus' =
       IF toasts = <<>> THEN transactionStatus
       ELSE [visible |-> TRUE, status |-> toasts[Len(toasts)].status,
             message |-> toasts[Len(toasts)].message]
  /\ toastSeq' = toastSeq + Len(toasts)
  /\ timers' =
       timers \cup UNION {TimerOf(toastSeq + i, toasts[i]) : i \in 1..Len(toasts)}

\* The handler moves to its next await (or returns: "idle").
Goto(handler, label) == pc' = [pc EXCEPT ![handler] = label]

AppInit ==
  /\ transactionStatus = HiddenStatus
  /\ toastSeq = 0
  /\ timers = {}
  /\ pc = [h \in Handlers |-> "idle"]

\* The catch block of loadConferences.
LoadFailed == <<ErrorToast("Failed to load conference data")>>

Commit(op, r) ==
  /\ conferences' = r.conferences
  /\ conferenceIds' = r.conferenceIds
  /\ events' = r.events
  /\ acl' = r.acl
  /\ last' = [op |-> op, status |-> r.status]
  /\ UNCHANGED now
  /\ UNCHANGED appVars

createConference(conferenceId, sender, encryptedStreamKey, inputProof, startTime, endTime) ==
  /\ Len(conferenceIds) < MaxIds
  /\ Commit("createConference",
            createConferenceCall(conferenceId, sender, encryptedStreamKey,
                                 inputProof, startTime, endTime))

decryptStreamKey(conferenceId, sender, abiEncodedClearKey, decryptionProof) ==
  Commit("decryptStreamKey",
         decryptStreamKeyCall(conferenceId, sender, abiEncodedClearKey,
                              decryptionProof))

endConference(conferenceId, sender) ==
  Commit("endConference", endConferenceCall(conferenceId, sender))

\* A later block: block.timestamp never decreases.
Tick ==
  /\ now < MaxTime
  /\ now' = now + 1
  /\ UNCHANGED <<conferences, conferenceIds, events, acl, last>>
  /\ UNCHANGED appVars

Init ==
  /\ conferences = [id \in Ids |-> DefaultConference]
  /\ conferenceIds = <<>>
  /\ events = <<>>
  /\ acl = [allowedThis |-> {}, publiclyDecryptable |-> {}]
  /\ now = 0
  /\ last = [op |-> "constructor", status |-> OK]
  /\ AppInit

CreateStep ==
  \E id \in Ids, sender \in Addresses, input \in EncryptedInputs,
     window \in Windows :
    createConference(id, sender, input[1], input[2], window[1], window[2])

DecryptStep ==
  \E id \in Ids, sender \in Addresses, claim \in DecryptionClaims :
    decryptStreamKey(id, sender, claim[1], claim[2])

EndStep ==
  \E id \in Ids, sender \in Addresses : endConference(id, sender)

Next == CreateStep \/ DecryptStep \/ EndStep \/ Tick

Spec == Init /\ [][Next]_vars

\* ------------------------------------------------ the client App: actions

KeepToast == UNCHANGED <<transactionStatus, toastSeq, timers>>

\* loadConferences called from the refresh button or the connection effect,
\* with a connected wallet: it suspends at getContractReadOnly.
App_loadConferences ==
  /\ pc["loadConferences"] = "idle"
  /\ Goto("loadConferences", "getContractReadOnly")
  /\ KeepToast
  /\ UNCHANGED contractVars

loadConferences_getContractReadOnly ==
  /\ pc["loadConferences"] = "getContractReadOnly"
  /\ \E contract \in {"null", "contract"} :
       Goto("loadConferences",
            IF contract = "null" THEN "idle" ELSE "getAllBusinessIds")
  /\ KeepToast
  /\ UNCHANGED contractVars

loadConferences_getAllBusinessIds ==
  /\ pc["loadConferences"] = "getAllBusinessIds"
  /\ \E outcome \in {"ids", "empty", "throws"} :
       /\ Show(IF outcome = "throws" THEN LoadFailed ELSE <<>>)
       /\ Goto("loadConferences",
               IF outcome = "ids" THEN "getBusinessData" ELSE "idle")
  /\ UNCHANGED contractVars

\* The loop over the ids: a failed getBusinessData is logged and skipped.
loadConferences_getBusinessData ==
  /\ pc["loadConferences"] = "getBusinessData"
  /\ Goto("loadConferences", "idle")
  /\ KeepToast
  /\ UNCHANGED contractVars

\* The catch block of createConference.
CreationFailed == <<ErrorToast("Creation failed")>>

\* The create form is submitted.
App_createConference ==
  /\ pc["createConference"] = "idle"
  /\ \E isConnected \in BOOLEAN :
       IF ~isConnected
       THEN /\ Show(<<ErrorToast("Please connect wallet first")>>)
            /\ UNCHANGED pc
       ELSE /\ Show(<<PendingToast("Creating secure conference room with FHE encryption...")>>)
            /\ Goto("createConference", "getContractWithSigner")
  /\ UNCHANGED contractVars

createConference_getContractWithSigner ==
  /\ pc["createConference"] = "getContractWithSigner"
  /\ \E contract \in {"null", "contract"} :
       IF contract = "null"
       THEN Show(CreationFailed) /\ Goto("createConference", "idle")
       ELSE KeepToast /\ Goto("createConference", "encrypt")
  /\ UNCHANGED contractVars

\* contract.getAddress() and encrypt(contractAddress, address, keyValue).
createConference_encrypt ==
  /\ pc["createConference"] = "encrypt"
  /\ \E outcome \in {"ok", "throws"} :
       IF outcome = "throws"
       THEN Show(CreationFailed) /\ Goto("createConference", "idle")
       ELSE KeepToast /\ Goto("createConference", "createBusinessData")
  /\ UNCHANGED contractVars

createConference_createBusinessData ==
  /\ pc["createConference"] = "createBusinessData"
  /\ \E outcome \in {"ok", "throws"} :
       IF outcome = "throws"
       THEN Show(CreationFailed) /\ Goto("createConference", "idle")
       ELSE /\ Show(<<PendingToast("Encrypting video stream keys...")>>)
            /\ Goto("createConference", "tx.wait")
  /\ UNCHANGED contractVars

\* tx.wait() returns: the success toast and its timer, then loadConferences.
createConference_txWait ==
  /\ pc["createConference"] = "tx.wait"
  /\ \E outcome \in {"ok", "throws"} :
       IF outcome = "throws"
       THEN Show(CreationFailed) /\ Goto("createConference", "idle")
       ELSE /\ Show(<<SuccessToast("Secure conference room created!")>>)
            /\ Goto("createConference", "loadConferences")
  /\ UNCHANGED contractVars

\* The loadConferences that createConference awaits returns.
createConference_loadConferences ==
  /\ pc["createConference"] = "loadConferences"
  /\ \E loaded \in BOOLEAN : Show(IF loaded THEN <<>> ELSE LoadFailed)
  /\ Goto("createConference", "idle")
  /\ UNCHANGED contractVars

\* The catch block of decryptConferenceKey: an error whose message has "Data
\* already verified" reloads the list, any other shows the error toast.
DecryptCatch(alreadyVerified) ==
  IF alreadyVerified
  THEN KeepToast /\ Goto("decryptConferenceKey", "loadConferences in catch")
  ELSE /\ Show(<<ErrorToast("Decryption failed")>>)
       /\ Goto("decryptConferenceKey", "idle")

\* A decrypt button is pressed.
App_decryptConferenceKey ==
  /\ pc["decryptConferenceKey"] = "idle"
  /\ \E isConnected \in BOOLEAN :
       IF ~isConnected
       THEN /\ Show(<<ErrorToast("Please connect wallet first")>>)
            /\ UNCHANGED pc
       ELSE KeepToast /\ Goto("decryptConferenceKey", "getContractReadOnly")
  /\ UNCHANGED contractVars

decryptConferenceKey_getContractReadOnly ==
  /\ pc["decryptConferenceKey"] = "getContractReadOnly"
  /\ \E contract \in {"null", "contract"} :
       Goto("decryptConferenceKey",
            IF contract = "null" THEN "idle" ELSE "getBusinessData")
  /\ KeepToast
  /\ UNCHANGED contractVars

decryptConferenceKey_getBusinessData ==
  /\ pc["decryptConferenceKey"] = "getBusinessData"
  /\ \E outcome \in {"verified", "unverified", "throws"},
        alreadyVerified \in BOOLEAN :
       CASE outcome = "verified" ->
              /\ Show(<<SuccessToast("Conference key already verified on-chain")>>)
              /\ Goto("decryptConferenceKey", "idle")
         [] outcome = "unverified" ->
              KeepToast /\ Goto("decryptConferenceKey", "getContractWithSigner")
         [] outcome = "throws" -> DecryptCatch(alreadyVerified)
  /\ UNCHANGED contractVars

decryptConferenceKey_getContractWithSigner ==
  /\ pc["decryptConferenceKey"] = "getContractWithSigner"
  /\ \E contract \in {"null", "contract"} :
       Goto("decryptConferenceKey",
            IF contract = "null" THEN "idle" ELSE "getEncryptedValue")
  /\ KeepToast
  /\ UNCHANGED contractVars

decryptConferenceKey_getEncryptedValue ==
  /\ pc["decryptConferenceKey"] = "getEncryptedValue"
  /\ \E outcome \in {"ok", "throws"}, alreadyVerified \in BOOLEAN :
       IF outcome = "throws" THEN DecryptCatch(alreadyVerified)
       ELSE KeepToast /\ Goto("decryptConferenceKey", "verifyDecryption")
  /\ UNCHANGED contractVars

\* The SDK's verifyDecryption with the callback that calls
\* contractWrite.verifyDecryption.
decryptConferenceKey_verifyDecryption ==
  /\ pc["decryptConferenceKey"] = "verifyDecryption"
  /\ \E outcome \in {"ok", "throws"}, alreadyVerified \in BOOLEAN :
       IF outcome = "throws" THEN DecryptCatch(alreadyVerified)
       ELSE KeepToast /\ Goto("decryptConferenceKey", "loadConferences")
  /\ UNCHANGED contractVars

\* The loadConferences awaited after the verification returns, then the
\* success toast and its timer.
decryptConferenceKey_loadConferences ==
  /\ pc["decryptConferenceKey"] = "loadConferences"
  /\ \E loaded \in BOOLEAN :
       Show((IF loaded THEN <<>> ELSE LoadFailed) \o
            <<SuccessToast("Conference key decrypted and verified!")>>)
  /\ Goto("decryptConferenceKey", "idle")
  /\ UNCHANGED contractVars

\* The loadConferences awaited in the catch block returns.
decryptConferenceKey_loadConferencesInCatch ==
  /\ pc["decryptConferenceKey"] = "loadConferences in catch"
  /\ \E loaded \in BOOLEAN : Show(IF loaded THEN <<>> ELSE LoadFailed)
  /\ Goto("decryptConferenceKey", "idle")
  /\ UNCHANGED contractVars

\* The status button is pressed.
App_checkAvailability ==
  /\ pc["checkAvailability"] = "idle"
  /\ Goto("checkAvailability", "getContractReadOnly")
  /\ KeepToast
  /\ UNCHANGED contractVars

checkAvailability_getContractReadOnly ==
  /\ pc["checkAvailability"] = "getContractReadOnly"
  /\ \E contract \in {"null", "contract"} :
       Goto("checkAvailability",
            IF contract = "null" THEN "idle" ELSE "isAvailable")
  /\ KeepToast
  /\ UNCHANGED contractVars

checkAvailability_isAvailable ==
  /\ pc["checkAvailability"] = "isAvailable"
  /\ \E outcome \in {"ok", "throws"} :
       Show(IF outcome = "ok" THEN <<SuccessToast("FHE system available")>>
            ELSE <<ErrorToast("Availability check failed")>>)
  /\ Goto("checkAvailability", "idle")
  /\ UNCHANGED contractVars

\* A hide timer's callback runs once its delay has passed: it hides whatever
\* toast is on screen. Timers that are due together run in the order they
\* were started.
HideTimerFires ==
  /\ \E t \in timers :
       /\ t.left = 0
       /\ \A u \in timers : u.left = 0 => t.toast <= u.toast
       /\ timers' = timers \ {t}
  /\ transactionStatus' = HiddenStatus
  /\ UNCHANGED <<toastSeq, pc>>
  /\ UNCHANGED contractVars

\* A second passes; a timer that is due runs before the next second.
AppTick ==
  /\ timers # {}
  /\ \A t \in timers : t.left > 0
  /\ timers' = {[t EXCEPT !.left = @ - 1] : t \in timers}
  /\ UNCHANGED <<transactionStatus, toastSeq, pc>>
  /\ UNCHANGED contractVars

AppNext ==
  \/ App_loadConferences
  \/ loadConferences_getContractReadOnly
  \/ loadConferences_getAllBusinessIds
  \/ loadConferences_getBusinessData
  \/ App_createConference
  \/ createConference_getContractWithSigner
  \/ createConference_encrypt
  \/ createConference_createBusinessData
  \/ createConference_txWait
  \/ createConference_loadConferences
  \/ App_decryptConferenceKey
  \/ decryptConferenceKey_getContractReadOnly
  \/ decryptConferenceKey_getBusinessData
  \/ decryptConferenceKey_getContractWithSigner
  \/ decryptConferenceKey_getEncryptedValue
  \/ decryptConferenceKey_verifyDecryption
  \/ decryptConferenceKey_loadConferences
  \/ decryptConferenceKey_loadConferencesInCatch
  \/ App_checkAvailability
  \/ checkAvailability_getContractReadOnly
  \/ checkAvailability_isAvailable
  \/ HideTimerFires
  \/ AppTick

AppSpec == Init /\ [][AppNext]_vars

\* ---------------------------------------------------------------- claims

\* A createConference call with this id has succeeded: only a successful
\* createConference appends to conferenceIds.
Created(id) == \E i \in 1..Len(conferenceIds) : conferenceIds[i] = id

NoDuplicateIds(ids) ==
  \A i, j \in 1..Len(ids) : ids[i] = ids[j] => i = j

\* C1: for every id, the empty string included, right after a successful
\* createConference(id, key, proof, startTime, endTime) by sender,
\* getConferenceDetails(id) succeeds and returns creator = sender, the
\* supplied startTime and endTime, isActive = TRUE, isDecrypted = FALSE and
\* decryptedStreamKey = 0.
C1_CreateThenGet ==
  [][(last'.op = "createConference" /\ last'.status = OK) =>
     \A id \in Ids, sender \in Addresses, input \in EncryptedInputs,
        window \in Windows :
       createConference(id, sender, input[1], input[2], window[1], window[2])
       => getConferenceDetails(id)' =
            [status |-> OK, creator |-> sender, startTime |-> window[1],
             endTime |-> window[2], isActive |-> TRUE, isDecrypted |-> FALSE,
             decryptedStreamKey |-> 0]]_vars

\* C2: once createConference(id, ...) has succeeded, every later
\* createConference with the same id fails with "Conference already exists"
\* and leaves the stored records and the id list as they were, so that no id
\* occurs twice in conferenceIds.
C2_SecondCreateRejected ==
  [][last'.op = "createConference" =>
     \A id \in Ids, sender \in Addresses, input \in EncryptedInputs,
        window \in Windows :
       (/\ Created(id)
        /\ createConference(id, sender, input[1], input[2], window[1], window[2]))
       => /\ last'.status = "Conference already exists"
          /\ conferences' = conferences
          /\ conferenceIds' = conferenceIds
          /\ NoDuplicateIds(conferenceIds')]_vars

\* C3: a createConference, decryptStreamKey or endConference call that fails
\* one of its guards leaves the conferences mapping, the conferenceIds list
\* and the event log exactly as they were before the call. (Every call sets
\* last to its own outcome, so a step that ends with a failure in last is a
\* failed call or changes nothing but the clock.)
C3_FailedCallLeavesStore ==
  [][last'.status # OK => UNCHANGED <<conferences, conferenceIds, events>>]_vars

\* C3's case: a createConference with startTime >= endTime was rejected while
\* the store already held a record and events.
C3_Witness ==
  /\ last = [op |-> "createConference", status |-> "Invalid time range"]
  /\ Len(conferenceIds) > 0
  /\ Len(events) > 0

\* C4: isDecrypted goes from FALSE to TRUE at most once and never back, and
\* decryptedStreamKey changes only in the step that sets isDecrypted: once a
\* record is decrypted, every decryptStreamKey on it fails with "Stream key
\* already decrypted" and its decryptedStreamKey stays as it is.
C4_DecryptOnce ==
  [][\A id \in Ids :
       /\ conferences[id].isDecrypted =>
            /\ conferences'[id].isDecrypted
            /\ conferences'[id].decryptedStreamKey =
                 conferences[id].decryptedStreamKey
       /\ conferences'[id].decryptedStreamKey # conferences[id].decryptedStreamKey
            => ~conferences[id].isDecrypted /\ conferences'[id].isDecrypted
       /\ (conferences[id].isDecrypted /\ last'.op = "decryptStreamKey") =>
            \A sender \in Addresses, claim \in DecryptionClaims :
              decryptStreamKey(id, sender, claim[1], claim[2])
              => /\ last'.status = "Stream key already decrypted"
                 /\ UNCHANGED <<conferences, conferenceIds, events>>]_vars

\* C4's case: a second decryptStreamKey on a decrypted record was rejected,
\* and the key the first one stored is still there.
C4_Witness ==
  /\ last = [op |-> "decryptStreamKey", status |-> "Stream key already decrypted"]
  /\ conferences["a"].isDecrypted
  /\ conferences["a"].decryptedStreamKey = 7

\* C5: with a collaborator that accepts a decryption claim only when the
\* cleartext is that of the handle it is given, a record with isDecrypted =
\* TRUE holds the cleartext of its own encryptedStreamKey handle, and a record
\* with isDecrypted = FALSE holds decryptedStreamKey = 0.
C5_DecryptedKeyMatchesHandle ==
  \A id \in Ids :
    /\ conferences[id].isDecrypted =>
         conferences[id].decryptedStreamKey =
           PlainOf(conferences[id].encryptedStreamKey)
    /\ ~conferences[id].isDecrypted => conferences[id].decryptedStreamKey = 0

\* C5's case: a record was decrypted while another record holds a handle with
\* another cleartext.
C5_Witness ==
  \E id, other \in Ids :
    /\ conferences[id].isDecrypted
    /\ isInitialized(conferences[other].encryptedStreamKey)
    /\ PlainOf(conferences[other].encryptedStreamKey) #
         conferences[id].decryptedStreamKey

\* What C6 expects of endConference(id) by sender on a created record.
C6_Expected(id, sender) ==
  IF sender # conferences[id].creator THEN "Only creator can end conference"
  ELSE IF now <= conferences[id].endTime THEN "Conference is still active"
  ELSE OK

\* C6: endConference(id) on a created record fails with "Only creator can end
\* conference" for a caller other than the creator, fails with "Conference is
\* still active" for the creator while now <= endTime, and succeeds for the
\* creator once now > endTime, after which getConferenceDetails(id) and
\* isConferenceActive(id) report isActive = FALSE.
C6_EndConferenceOutcome ==
  [][last'.op = "endConference" =>
     \A id \in Ids, sender \in Addresses :
       (Created(id) /\ endConference(id, sender))
       => /\ last'.status = C6_Expected(id, sender)
          /\ last'.status = OK =>
               /\ getConferenceDetails(id)'.status = OK
               /\ getConferenceDetails(id)'.isActive = FALSE
               /\ isConferenceActive(id)' = [status |-> OK, value |-> FALSE]]_vars

\* C6 for the ids that pass the contract's own existence check: there the
\* outcome is as C6 states.
C6_ForIdsThatExist ==
  [][last'.op = "endConference" =>
     \A id \in Ids, sender \in Addresses :
       (Exists(id) /\ endConference(id, sender))
       => /\ last'.status = C6_Expected(id, sender)
          /\ last'.status = OK =>
               /\ getConferenceDetails(id)'.status = OK
               /\ getConferenceDetails(id)'.isActive = FALSE
               /\ isConferenceActive(id)' = [status |-> OK, value |-> FALSE]]_vars

\* C7: a created record has isActive = TRUE from its creation on; isActive
\* becomes FALSE only in an endConference step, and every endConference call
\* that makes it FALSE is made by the record's creator at a time after
\* endTime; once FALSE it is never TRUE again.
C7_ActiveUntilEndedByCreator ==
  [][\A id \in Ids :
       /\ (~Created(id) /\ Created(id)') => conferences'[id].isActive
       /\ (Created(id) /\ conferences[id].isActive /\ ~conferences'[id].isActive)
            => /\ last'.op = "endConference"
               /\ last'.status = OK
               /\ \A other \in Ids, sender \in Addresses :
                    endConference(other, sender)
                    => /\ other = id
                       /\ sender = conferences[id].creator
                       /\ now > conferences[id].endTime
       /\ (Created(id) /\ ~conferences[id].isActive)
            => ~conferences'[id].isActive]_vars

\* C7's case: the creator's endConference has just ended a created record.
C7_Witness ==
  /\ last = [op |-> "endConference", status |-> OK]
  /\ Created("a")
  /\ ~conferences["a"].isActive
  /\ now > conferences["a"].endTime

\* C8: no accepted call is a no-op: every createConference, decryptStreamKey
\* or endConference call that is not rejected changes the store (a step that
\* leaves the clock alone and ends with "ok" in last is an accepted call).
C8_NoSilentNoOp ==
  [][(now' = now /\ last'.status = OK) =>
       <<conferences, conferenceIds, events>>' #
         <<conferences, conferenceIds, events>>]_vars

\* C9: for an id never created and an input the collaborator accepts,
\* createConference fails with an invalid-window error exactly when
\* startTime >= endTime or endTime < now, and succeeds otherwise (so at
\* now = endTime with startTime < endTime it succeeds); no created record has
\* startTime >= endTime.
C9_InvalidWindowExactly ==
  [][last'.op = "createConference" =>
     \A id \in Ids, sender \in Addresses, input \in EncryptedInputs,
        window \in Windows :
       (/\ ~Created(id)
        /\ fromExternal(input[1], input[2]).ok
        /\ isInitialized(fromExternal(input[1], input[2]).handle)
        /\ createConference(id, sender, input[1], input[2], window[1], window[2]))
       => /\ IF window[1] >= window[2] \/ window[2] < now
             THEN last'.status \in {"Invalid time range",
                                    "Conference has already ended"}
             ELSE last'.status = OK
          /\ \A other \in Ids :
               Created(other)' =>
                 conferences'[other].startTime < conferences'[other].endTime]_vars

\* The claim a decryptStreamKey call presents is one the collaborator accepts
\* for the handle stored under id.
ValidClaim(id, claim) ==
  checkSignatures(<<conferences[id].encryptedStreamKey>>, claim[1], claim[2])

\* What C10 expects of decryptStreamKey on a created, undecrypted record with
\* a valid claim.
C10_Expected(id) ==
  IF now < conferences[id].startTime THEN "Conference has not started"
  ELSE IF now > conferences[id].endTime THEN "Conference has ended"
  ELSE OK

\* C10: decryptStreamKey(id, ...) fails with "Conference does not exist" when
\* no record was created under id; on a created, undecrypted record with a
\* valid claim it succeeds exactly when startTime <= now <= endTime, fails
\* with "Conference has not started" when now < startTime and with
\* "Conference has ended" when now > endTime.
C10_DecryptWindow ==
  [][last'.op = "decryptStreamKey" =>
     \A id \in Ids, sender \in Addresses, claim \in DecryptionClaims :
       decryptStreamKey(id, sender, claim[1], claim[2])
       => /\ ~Created(id) => last'.status = "Conference does not exist"
          /\ (Created(id) /\ ~conferences[id].isDecrypted /\ ValidClaim(id, claim))
               => last'.status = C10_Expected(id)]_vars

\* C10 for the ids that pass the contract's own existence check: there the
\* outcome is as C10 states.
C10_ForIdsThatExist ==
  [][last'.op = "decryptStreamKey" =>
     \A id \in Ids, sender \in Addresses, claim \in DecryptionClaims :
       decryptStreamKey(id, sender, claim[1], claim[2])
       => /\ ~Exists(id) => last'.status = "Conference does not exist"
          /\ (Exists(id) /\ ~conferences[id].isDecrypted /\ ValidClaim(id, claim))
               => last'.status = C10_Expected(id)]_vars

\* C11: every read entry point, given an id under which no conference was
\* created, fails instead of returning a default record: getConferenceDetails,
\* getEncryptedStreamKey, isConferenceActive and the public getter of the
\* conferences mapping.
C11_ReadsOfUnknownIdFail ==
  \A id \in Ids :
    ~Created(id) =>
      /\ getConferenceDetails(id).status # OK
      /\ getEncryptedStreamKey(id).status # OK
      /\ isConferenceActive(id).status # OK
      /\ conferencesGetter(id).status # OK

\* C11 for the three reads the contract writes itself: they fail for every id
\* under which no conference was created.
C11_ForWrittenReads ==
  \A id \in Ids :
    ~Created(id) =>
      /\ getConferenceDetails(id) = NotFound
      /\ getEncryptedStreamKey(id) = NotFound
      /\ isConferenceActive(id) = NotFound

\* The members of a record that C12 says are fixed at creation.
FixedFields(conf) ==
  <<conf.conferenceId, conf.encryptedStreamKey, conf.creator, conf.startTime,
    conf.endTime>>

\* C12: for every id, the empty string included, once a record is stored under
\* it, its conferenceId, encryptedStreamKey, creator, startTime and endTime
\* never change and the record is never deleted.
C12_FixedFieldsNeverChange ==
  [][\A id \in Ids :
       Created(id) =>
         /\ Created(id)'
         /\ FixedFields(conferences'[id]) = FixedFields(conferences[id])]_vars

\* C12 for the ids that pass the contract's own existence check.
C12_ForIdsThatExist ==
  [][\A id \in Ids :
       Exists(id) =>
         /\ Exists(id)'
         /\ FixedFields(conferences'[id]) = FixedFields(conferences[id])]_vars

\* The ids of the ConferenceCreated events of a log, in the order of the log:
\* one per successful createConference.
RECURSIVE CreatedInOrder(_)
CreatedInOrder(log) ==
  IF log = <<>> THEN <<>>
  ELSE IF Head(log).name = "ConferenceCreated"
       THEN <<Head(log).conferenceId>> \o CreatedInOrder(Tail(log))
       ELSE CreatedInOrder(Tail(log))

IsPrefix(s, t) ==
  /\ Len(s) <= Len(t)
  /\ SubSeq(t, 1, Len(s)) = s

\* C13: getAllConferenceIds returns the ids in the order of their successful
\* createConference calls; the list is append-only (the old list is a prefix of
\* the new one), grows by exactly one on each successful create and is left
\* unchanged by every decryptStreamKey and endConference call.
C13_IdListAppendOnly ==
  [][/\ IsPrefix(getAllConferenceIds, getAllConferenceIds')
     /\ getAllConferenceIds' = CreatedInOrder(events')
     /\ (last'.op = "createConference" /\ last'.status = OK /\ now' = now) =>
          /\ Len(getAllConferenceIds') = Len(getAllConferenceIds) + 1
          /\ \E id \in Ids :
               getAllConferenceIds' = Append(getAllConferenceIds, id)
     /\ last'.op \in {"decryptStreamKey", "endConference"} =>
          getAllConferenceIds' = getAllConferenceIds
     /\ last'.status # OK => getAllConferenceIds' = getAllConferenceIds]_vars

\* Two creates in a known order, then a successful call that is not a create.
C13_Witness ==
  /\ getAllConferenceIds = <<"a", "">>
  /\ last.op \in {"decryptStreamKey", "endConference"}
  /\ last.status = OK

\* The failure C15 names for a createConference call, given whether a record is
\* held under the id: the first violated guard in the order already-exists,
\* invalid-proof, invalid-window; nothing is said when no guard is violated.
C15_CreateOrder(held, input, window, status) ==
  IF held THEN status = "Conference already exists"
  ELSE IF ~(/\ fromExternal(input[1], input[2]).ok
            /\ isInitialized(fromExternal(input[1], input[2]).handle))
  THEN status \in {"fromExternal reverted", "Invalid encrypted input"}
  ELSE IF window[1] >= window[2] \/ window[2] < now
  THEN status \in {"Invalid time range", "Conference has already ended"}
  ELSE TRUE

\* The same for decryptStreamKey: not-found, already-decrypted, window-closed,
\* proof-invalid.
C15_DecryptOrder(held, id, claim, status) ==
  IF ~held THEN status = "Conference does not exist"
  ELSE IF conferences[id].isDecrypted THEN status = "Stream key already decrypted"
  ELSE IF now < conferences[id].startTime THEN status = "Conference has not started"
  ELSE IF now > conferences[id].endTime THEN status = "Conference has ended"
  ELSE IF ~ValidClaim(id, claim)
  THEN status \in {"checkSignatures reverted", "abi.decode reverted"}
  ELSE TRUE

\* The same for endConference: not-found, creator-only, still-active.
C15_EndOrder(held, id, sender, status) ==
  IF ~held THEN status = "Conference does not exist"
  ELSE IF sender # conferences[id].creator
  THEN status = "Only creator can end conference"
  ELSE IF now <= conferences[id].endTime THEN status = "Conference is still active"
  ELSE TRUE

\* C15: when a call violates several guards, the failure reported is the first
\* violated one in the order createConference: already-exists, invalid-proof,
\* invalid-window; decryptStreamKey: not-found, already-decrypted,
\* window-closed, proof-invalid; endConference: not-found, creator-only,
\* still-active. A create for an id that was created before reports
\* "Conference already exists" whatever its window.
C15_FirstViolatedGuard ==
  [][/\ last'.op = "createConference" =>
          \A id \in Ids, sender \in Addresses, input \in EncryptedInputs,
             window \in Windows :
            createConference(id, sender, input[1], input[2], window[1], window[2])
            => C15_CreateOrder(Created(id), input, window, last'.status)
     /\ last'.op = "decryptStreamKey" =>
          \A id \in Ids, sender \in Addresses, claim \in DecryptionClaims :
            decryptStreamKey(id, sender, claim[1], claim[2])
            => C15_DecryptOrder(Created(id), id, claim, last'.status)
     /\ last'.op = "endConference" =>
          \A id \in Ids, sender \in Addresses :
            endConference(id, sender)
            => C15_EndOrder(Created(id), id, sender, last'.status)]_vars

\* C15 for the ids that pass the contract's own existence check.
C15_ForIdsThatExist ==
  [][/\ last'.op = "createConference" =>
          \A id \in Ids, sender \in Addresses, input \in EncryptedInputs,
             window \in Windows :
            createConference(id, sender, input[1], input[2], window[1], window[2])
            => C15_CreateOrder(Exists(id), input, window, last'.status)
     /\ last'.op = "decryptStreamKey" =>
          \A id \in Ids, sender \in Addresses, claim \in DecryptionClaims :
            decryptStreamKey(id, sender, claim[1], claim[2])
            => C15_DecryptOrder(Exists(id), id, claim, last'.status)
     /\ last'.op = "endConference" =>
          \A id \in Ids, sender \in Addresses :
            endConference(id, sender)
            => C15_EndOrder(Exists(id), id, sender, last'.status)]_vars

\* The outcome of a decryptStreamKey call written from the existence check,
\* isDecrypted, the clock against startTime and endTime, and the claim alone:
\* neither the caller nor isActive occurs in it.
C16_Status(id, claim) ==
  IF ~Exists(id) THEN "Conference does not exist"
  ELSE IF conferences[id].isDecrypted THEN "Stream key already decrypted"
  ELSE IF now < conferences[id].startTime THEN "Conference has not started"
  ELSE IF now > conferences[id].endTime THEN "Conference has ended"
  ELSE IF ~ValidClaim(id, claim) THEN "checkSignatures reverted"
  ELSE IF ~AbiDecodeUint32(claim[1]).ok THEN "abi.decode reverted"
  ELSE OK

\* C16: the outcome of decryptStreamKey does not depend on who calls it or on
\* isActive: in every state, the same call made by any two callers has the
\* same success or failure reason and the same resulting records, the status is
\* the one fixed by existence, isDecrypted, the window and the claim, and a
\* successful call leaves isActive as it was.
C16_DecryptIgnoresCaller ==
  \A id \in Ids, claim \in DecryptionClaims :
    /\ \A s1, s2 \in Addresses :
         decryptStreamKeyCall(id, s1, claim[1], claim[2]) =
           decryptStreamKeyCall(id, s2, claim[1], claim[2])
    /\ \A sender \in Addresses :
         LET r == decryptStreamKeyCall(id, sender, claim[1], claim[2]) IN
         /\ r.status = C16_Status(id, claim)
         /\ r.conferences[id].isActive = conferences[id].isActive
         /\ r.conferences[id].creator = conferences[id].creator

\* A record created by alice that a call by bob, like the same call by alice,
\* decrypts, reached by a decryptStreamKey call.
C16_Witness ==
  /\ last.op = "decryptStreamKey"
  /\ conferences["a"].creator = "alice"
  /\ \E claim \in DecryptionClaims :
       /\ decryptStreamKeyCall("a", "bob", claim[1], claim[2]).status = OK
       /\ decryptStreamKeyCall("a", "alice", claim[1], claim[2]).status = OK

\* C17: the id list and the mapping agree: every id in conferenceIds passes
\* the existence check, every id that passes the existence check occurs in
\* conferenceIds, and the record under key k has conferenceId = k.
C17_ListAndMappingAgree ==
  /\ \A i \in 1..Len(conferenceIds) : Exists(conferenceIds[i])
  /\ \A id \in Ids :
       Exists(id) =>
         /\ \E i \in 1..Len(conferenceIds) : conferenceIds[i] = id
         /\ conferences[id].conferenceId = id

\* C17 without its first part: every id that passes the existence check occurs
\* in conferenceIds with conferenceId equal to its key, and every listed id
\* holds a record written by createConference under that key.
C17_ForIdsThatExist ==
  /\ \A id \in Ids :
       Exists(id) =>
         /\ \E i \in 1..Len(conferenceIds) : conferenceIds[i] = id
         /\ conferences[id].conferenceId = id
  /\ \A i \in 1..Len(conferenceIds) :
       /\ conferences[conferenceIds[i]].conferenceId = conferenceIds[i]
       /\ conferences[conferenceIds[i]].creator \in Addresses

\* C18: with a clock that never goes back, no decryptStreamKey(id) succeeds
\* after endConference(id) succeeded: a created record with isActive = FALSE is
\* past its endTime in every state, and from such a state no step sets
\* isDecrypted, writes decryptedStreamKey or makes the record active again.
C18_NoDecryptAfterEnd ==
  [][\A id \in Ids :
       /\ (Created(id)' /\ ~conferences'[id].isActive) =>
            now' > conferences'[id].endTime
       /\ (Created(id) /\ ~conferences[id].isActive) =>
            /\ conferences'[id].isDecrypted = conferences[id].isDecrypted
            /\ conferences'[id].decryptedStreamKey =
                 conferences[id].decryptedStreamKey
            /\ ~conferences'[id].isActive]_vars

\* An ended record on which a decryptStreamKey call was made and refused.
C18_Witness ==
  /\ Created("a")
  /\ ~conferences["a"].isActive
  /\ ~conferences["a"].isDecrypted
  /\ last = [op |-> "decryptStreamKey", status |-> "Conference has ended"]

\* A created record that is undecrypted after its endTime.
Expired(id) ==
  /\ Created(id)
  /\ ~conferences[id].isDecrypted
  /\ now > conferences[id].endTime

\* C19: with a clock that never goes back, a record that has isDecrypted =
\* FALSE in a state where now > endTime has isDecrypted = FALSE and
\* decryptedStreamKey = 0 in every later state.
C19_ExpiryIsFinal ==
  \A id \in Ids :
    [](Expired(id) =>
         [](~conferences[id].isDecrypted /\ conferences[id].decryptedStreamKey = 0))

\* An expired record on which a decryptStreamKey call with a valid claim was
\* made and refused.
C19_Witness ==
  /\ Expired("a")
  /\ last = [op |-> "decryptStreamKey", status |-> "Conference has ended"]
  /\ \E claim \in DecryptionClaims :
       ValidClaim("a", claim) /\ AbiDecodeUint32(claim[1]).ok

\* The public functions of the contract, with the number of parameters of
\* each: its external functions and the getters of its public state.
ContractInterface ==
  {[name |-> "conferences", nargs |-> 1],
   [name |-> "conferenceIds", nargs |-> 1],
   [name |-> "createConference", nargs |-> 5],
   [name |-> "decryptStreamKey", nargs |-> 3],
   [name |-> "getEncryptedStreamKey", nargs |-> 1],
   [name |-> "getConferenceDetails", nargs |-> 1],
   [name |-> "getAllConferenceIds", nargs |-> 0],
   [name |-> "endConference", nargs |-> 1],
   [name |-> "isConferenceActive", nargs |-> 1]}

\* The contract methods the client invokes, with the number of arguments it
\* passes: a handler suspended at one of these names awaits that call.
ClientCalls ==
  {[name |-> "getAllBusinessIds", nargs |-> 0],
   [name |-> "getBusinessData", nargs |-> 1],
   [name |-> "createBusinessData", nargs |-> 7],
   [name |-> "getEncryptedValue", nargs |-> 1],
   [name |-> "verifyDecryption", nargs |-> 3],
   [name |-> "isAvailable", nargs |-> 0]}

\* C14: the client reads and writes only through operations the contract
\* exposes: every contract method a handler of the client invokes is one of
\* the contract's public functions, called with that function's parameters.
C14_ClientCallsContractInterface ==
  \A h \in Handlers, call \in ClientCalls :
    pc[h] = call.name => call \in ContractInterface

\* C20: a toast shown with a hide timer stays on screen until its own timer
\* fires: under every interleaving of the async handlers, a step that hides
\* the toast on screen is taken only when the delay of the timer started for
\* that toast has passed, so a timer started for an earlier toast never hides
\* a later toast before its time.
C20_TimerHidesOwnToast ==
  [][\A t \in timers :
       (/\ transactionStatus.visible
        /\ t.toast = toastSeq
        /\ ~transactionStatus'.visible)
       => t.left = 0]_vars

====
